---- MODULE Spec2Model ----
(***************************************************************************)
(* Model of the dev-events persistence core:                               *)
(*   src/database/event.model.ts  Event schema, generateSlug,              *)
(*                                normalizeDateToISO, normalizeTime and    *)
(*                                the Event pre-save hook                  *)
(*   src/unnamed/part_000         Booking schema and its pre-save hook     *)
(*   src/lib/mongodb.ts           connectToDatabase and its connection     *)
(*                                cache                                    *)
(*   src/app/providers.tsx        a second connectToDatabase with a cache  *)
(*                                of its own (lines 84-150)                *)
(*                                                                         *)
(* Strings are sequences of one-character strings, so that trimming,       *)
(* case folding, regular-expression matching and formatting are computed   *)
(* character by character as the code computes them.                       *)
(***************************************************************************)
EXTENDS Integers, Sequences, FiniteSets, TLC

VARIABLES
    events,     \* the Event collection: _id -> stored document, or NoDoc
    bookings,   \* the Booking collection: a set of stored documents
    nextId,     \* the next fresh _id handed to a new document
    ops,        \* per caller: the save in flight (document, hook position) or its outcome
    started,    \* number of saves started so far
    last,       \* how the save that ended most recently ended: Ok or the error raised
    hostTz,     \* host timezone, minutes east of UTC (environment of `new Date(str)`)
    call,       \* a direct call of one of the pure helpers: function, argument, results
    env,        \* process.env.MONGODB_URI: "missing" or "set"
    imported,   \* evaluation of the module src/lib/mongodb.ts: "no", "yes" or "threw"
    cached,     \* per module: its connection cache, [conn, promise], 0 for null
    promises,   \* the promises mongoose.connect returned: who started each, and its state
    clients,    \* per client: the connectToDatabase call it is suspended in, if any
    out,        \* per client: how its last connectToDatabase call ended
    running     \* the promise whose reactions the microtask queue is running, 0 if none

storeVars == <<events, bookings, nextId, ops, started, last, hostTz, call>>

connVars == <<env, imported, cached, promises, clients, out, running>>

vars == <<events, bookings, nextId, ops, started, last, hostTz, call,
          env, imported, cached, promises, clients, out, running>>

----------------------------------------------------------------------------
(* Characters and strings                                                  *)

DigitSeq == <<"0", "1", "2", "3", "4", "5", "6", "7", "8", "9">>

UpperSeq == <<"A", "B", "C", "D", "E", "F", "G", "H", "I", "J", "K", "L", "M",
              "N", "O", "P", "Q", "R", "S", "T", "U", "V", "W", "X", "Y", "Z">>

LowerSeq == <<"a", "b", "c", "d", "e", "f", "g", "h", "i", "j", "k", "l", "m",
              "n", "o", "p", "q", "r", "s", "t", "u", "v", "w", "x", "y", "z">>

Range(s) == {s[i] : i \in DOMAIN s}

Digits == Range(DigitSeq)

\* \s of a JavaScript regular expression (the members the inputs use)
WhiteSpace == {" ", "\t"}

\* \w of a JavaScript regular expression: [A-Za-z0-9_]
WordChars == Range(UpperSeq) \cup Range(LowerSeq) \cup Digits \cup {"_"}

IndexOf(seq, c) == CHOOSE i \in DOMAIN seq : seq[i] = c

DigitVal(c) == IndexOf(DigitSeq, c) - 1

\* String.prototype.toLowerCase / toUpperCase, one character
LowerChar(c) == IF c \in Range(UpperSeq) THEN LowerSeq[IndexOf(UpperSeq, c)] ELSE c

UpperChar(c) == IF c \in Range(LowerSeq) THEN UpperSeq[IndexOf(LowerSeq, c)] ELSE c

toLowerCase(s) == [i \in DOMAIN s |-> LowerChar(s[i])]

toUpperCase(s) == [i \in DOMAIN s |-> UpperChar(s[i])]

RECURSIVE DropLeading(_, _)
DropLeading(s, S) ==
    IF s # <<>> /\ Head(s) \in S THEN DropLeading(Tail(s), S) ELSE s

RECURSIVE DropTrailing(_, _)
DropTrailing(s, S) ==
    IF s # <<>> /\ s[Len(s)] \in S
    THEN DropTrailing(SubSeq(s, 1, Len(s) - 1), S)
    ELSE s

\* String.prototype.trim
trim(s) == DropTrailing(DropLeading(s, WhiteSpace), WhiteSpace)

\* s.replace(/[^S]/g, ''): keep only the characters of S
KeepOnly(s, S) == SelectSeq(s, LAMBDA c : c \in S)

\* s.replace(/[S]+/g, rep): every maximal run of characters of S becomes rep
RECURSIVE ReplaceRuns(_, _, _)
ReplaceRuns(s, S, rep) ==
    IF s = <<>> THEN <<>>
    ELSE IF Head(s) \in S
         THEN <<rep>> \o ReplaceRuns(DropLeading(Tail(s), S), S, rep)
         ELSE <<Head(s)>> \o ReplaceRuns(Tail(s), S, rep)

\* Number.prototype.toString for a natural number
RECURSIVE NatToString(_)
NatToString(n) ==
    IF n < 10 THEN <<DigitSeq[n + 1]>>
    ELSE NatToString(n \div 10) \o <<DigitSeq[(n % 10) + 1]>>

\* Number(str) / parseInt(str, 10) for a string of digits
RECURSIVE ParseNat(_)
ParseNat(s) ==
    IF s = <<>> THEN 0
    ELSE 10 * ParseNat(SubSeq(s, 1, Len(s) - 1)) + DigitVal(s[Len(s)])

AllDigits(s) == \A i \in DOMAIN s : s[i] \in Digits

\* String.prototype.padStart(n, '0')
RECURSIVE padStart(_, _)
padStart(s, n) == IF Len(s) >= n THEN s ELSE padStart(<<"0">> \o s, n)

\* The outcome of a call that may throw
Ok(v) == [ok |-> TRUE, val |-> v]

Throw(prefix, value) == [ok |-> FALSE, msg |-> prefix, value |-> value]

----------------------------------------------------------------------------
(* generateSlug (event.model.ts 108-115)                                   *)

SlugKeep == WordChars \cup WhiteSpace \cup {"-"}

generateSlug(title) ==
    LET lowered  == toLowerCase(title)
        trimmed  == trim(lowered)
        stripped == KeepOnly(trimmed, SlugKeep)
        hyphened == ReplaceRuns(stripped, WhiteSpace, "-")
    IN  ReplaceRuns(hyphened, {"-"}, "-")

----------------------------------------------------------------------------
(* normalizeTime (event.model.ts 142-172)                                  *)

\* /^(\d{1,2}):(\d{2})$/ : the hour group and the minute group, or no match
TimeShape(t) ==
    LET n == Len(t)
    IN  /\ n \in {4, 5}
        /\ t[n - 2] = ":"
        /\ AllDigits(SubSeq(t, 1, n - 3))
        /\ AllDigits(SubSeq(t, n - 1, n))

HourGroup(t) == SubSeq(t, 1, Len(t) - 3)

MinuteGroup(t) == SubSeq(t, Len(t) - 1, Len(t))

\* /^(\d{1,2}):(\d{2})\s*(AM|PM)$/ : the H:MM part and the period, or no match
PeriodOf(t) == SubSeq(t, Len(t) - 1, Len(t))

ClockPart(t) == DropTrailing(SubSeq(t, 1, Len(t) - 2), WhiteSpace)

Time12Shape(t) ==
    /\ Len(t) >= 6
    /\ PeriodOf(t) \in {<<"A", "M">>, <<"P", "M">>}
    /\ TimeShape(ClockPart(t))

FormatTime(hours, minutes) == padStart(NatToString(hours), 2) \o <<":">> \o minutes

normalizeTime(timeStr) ==
    LET trimmed == toUpperCase(trim(timeStr))
        hours24 == ParseNat(HourGroup(trimmed))
        hours12 == ParseNat(HourGroup(ClockPart(trimmed)))
        period  == PeriodOf(trimmed)
        hours   == IF period = <<"P", "M">> /\ hours12 # 12 THEN hours12 + 12
                   ELSE IF period = <<"A", "M">> /\ hours12 = 12 THEN 0
                   ELSE hours12
    IN  IF TimeShape(trimmed) /\ hours24 >= 0 /\ hours24 <= 23
        THEN Ok(FormatTime(hours24, MinuteGroup(trimmed)))
        ELSE IF Time12Shape(trimmed)
             THEN Ok(FormatTime(hours, MinuteGroup(ClockPart(trimmed))))
             ELSE Throw("Invalid time format: ", timeStr)

----------------------------------------------------------------------------
(* normalizeDateToISO (event.model.ts 121-136)                             *)

MinutesPerDay == 24 * 60

\* Day number of a proleptic Gregorian date, day 0 = 1970-01-01 (ECMAScript MakeDay)
DaysFromCivil(y, m, d) ==
    LET yy  == IF m <= 2 THEN y - 1 ELSE y
        era == yy \div 400
        yoe == yy - era * 400
        mp  == IF m > 2 THEN m - 3 ELSE m + 9
        doy == (153 * mp + 2) \div 5 + d - 1
        doe == yoe * 365 + yoe \div 4 - yoe \div 100 + doy
    IN  era * 146097 + doe - 719468

\* The inverse: year, month, day of a day number (ECMAScript YearFromTime,
\* MonthFromTime, DateFromTime)
CivilFromDays(z) ==
    LET zz  == z + 719468
        era == zz \div 146097
        doe == zz - era * 146097
        yoe == (doe - doe \div 1460 + doe \div 36524 - doe \div 146096) \div 365
        doy == doe - (365 * yoe + yoe \div 4 - yoe \div 100)
        mp  == (5 * doy + 2) \div 153
        d   == doy - (153 * mp + 2) \div 5 + 1
        m   == IF mp < 10 THEN mp + 3 ELSE mp - 9
        y   == yoe + era * 400
    IN  [year |-> IF m <= 2 THEN y + 1 ELSE y, month |-> m, day |-> d]

\* A Date: the UTC day number and minute of the day of its time value, or NaN
NaNDate == [valid |-> FALSE]

DateAt(day, minute) == [valid |-> TRUE, day |-> day, minute |-> minute]

\* new Date(Date.UTC(year, monthIndex, day)): a year 0..99 means 1900 + year, and an
\* out-of-range month index or day carries into the neighbouring month or year
DateUTC(year, monthIndex, day) ==
    LET fullYear == IF year >= 0 /\ year <= 99 THEN 1900 + year ELSE year
        ym       == fullYear + (monthIndex \div 12)
        mn       == monthIndex % 12
    IN  DateAt(DaysFromCivil(ym, mn + 1, 1) + day - 1, 0)

\* The parts of a string between "/" separators
RECURSIVE SplitOn(_, _)
SplitOn(s, c) ==
    IF \E i \in DOMAIN s : s[i] = c
    THEN LET i == CHOOSE j \in DOMAIN s : s[j] = c /\ \A k \in 1..(j - 1) : s[k] # c
         IN  <<SubSeq(s, 1, i - 1)>> \o SplitOn(SubSeq(s, i + 1, Len(s)), c)
    ELSE <<s>>

\* new Date(str) for a string that is not an ISO literal: the engine's fallback
\* parser.  It reads month/day/year as LOCAL time (midnight in the host timezone),
\* takes a year 0..49 as 2000 + year and 50..99 as 1900 + year, accepts a day 1..31
\* for any month and carries the excess; a string without numbers is Invalid Date.
\* The inputs of this model are of these two kinds.
DateParse(str) ==
    LET parts == SplitOn(str, "/")
    IN  IF /\ Len(parts) = 3
           /\ \A i \in 1..3 : parts[i] # <<>> /\ AllDigits(parts[i])
        THEN LET month == ParseNat(parts[1])
                 day   == ParseNat(parts[2])
                 yr    == ParseNat(parts[3])
                 year  == IF yr <= 49 THEN 2000 + yr
                          ELSE IF yr <= 99 THEN 1900 + yr ELSE yr
                 local == DaysFromCivil(year, month, 1) + day - 1
             IN  IF month \in 1..12 /\ day \in 1..31
                 THEN DateAt(local + ((0 - hostTz) \div MinutesPerDay),
                             (0 - hostTz) % MinutesPerDay)
                 ELSE NaNDate
        ELSE NaNDate

\* /^\d{4}-\d{2}-\d{2}$/
IsoDateShape(s) ==
    /\ Len(s) = 10
    /\ s[5] = "-" /\ s[8] = "-"
    /\ \A i \in {1, 2, 3, 4, 6, 7, 9, 10} : s[i] \in Digits

\* parsed.toISOString().split('T')[0]
ISODatePart(date) ==
    LET c == CivilFromDays(date.day)
        yearStr == IF c.year >= 0 /\ c.year <= 9999
                   THEN padStart(NatToString(c.year), 4)
                   ELSE IF c.year > 9999
                        THEN <<"+">> \o padStart(NatToString(c.year), 6)
                        ELSE <<"-">> \o padStart(NatToString(0 - c.year), 6)
    IN  yearStr \o <<"-">> \o padStart(NatToString(c.month), 2)
                \o <<"-">> \o padStart(NatToString(c.day), 2)

normalizeDateToISO(dateStr) ==
    LET parsed == IF IsoDateShape(dateStr)
                  THEN DateUTC(ParseNat(SubSeq(dateStr, 1, 4)),
                               ParseNat(SubSeq(dateStr, 6, 7)) - 1,
                               ParseNat(SubSeq(dateStr, 9, 10)))
                  ELSE DateParse(dateStr)
    IN  IF ~parsed.valid
        THEN Throw("Invalid date format: ", dateStr)
        ELSE Ok(ISODatePart(parsed))

----------------------------------------------------------------------------
(* The two collections and the saves in flight                             *)

MaxEvents == 3

MaxSaves == 3

EventIds == 1..MaxEvents

Callers == {"c1", "c2"}

NoDoc == [none |-> TRUE]

None == [none |-> TRUE]

Idle == [pc |-> "idle", kind |-> "none", isNew |-> FALSE, id |-> 0, doc |-> NoDoc,
         touched |-> {}, modified |-> {}, base |-> <<>>, slug |-> <<>>, counter |-> 0,
         alone |-> TRUE, raw |-> None, error |-> None]

\* No save has ended yet
NoOutcome == [ok |-> TRUE, kind |-> "none", doc |-> NoDoc]

\* No helper is being called directly
NoCall == [fn |-> "none", parts |-> None, arg |-> <<>>, stage |-> 0,
           res |-> None, again |-> None]

EmptyStore ==
    /\ events = [i \in EventIds |-> NoDoc]
    /\ bookings = <<>>
    /\ nextId = 1
    /\ ops = [c \in Callers |-> Idle]
    /\ started = 0
    /\ last = NoOutcome

\* The two modules that export connectToDatabase
Modules == {"lib", "app"}

Clients == {"k1", "k2", "k3"}

NoCache == [conn |-> 0, promise |-> 0]

Waiting == [pc |-> "idle", fn |-> "lib", promise |-> 0]

NoReturn == [ok |-> FALSE, msg |-> "none", conn |-> 0, fn |-> "none"]

\* Nothing has been imported, called or cached yet
NoConnection ==
    /\ imported = "no"
    /\ cached = [m \in Modules |-> NoCache]
    /\ promises = <<>>
    /\ clients = [k \in Clients |-> Waiting]
    /\ out = [k \in Clients |-> NoReturn]
    /\ running = 0

Disconnected ==
    /\ env = "set"
    /\ NoConnection

\* A catch block that hands on an error of its own making
FailedReplaced(op, e) ==
    [op EXCEPT !.pc = "failed",
               !.error = [ok |-> FALSE, msg |-> "Save failed", value |-> <<>>]]

\* The save ends with the error e: nothing more is handed to the collection
Failed(op, e) == [op EXCEPT !.pc = "failed", !.error = e]

Saved(op) == [op EXCEPT !.pc = "saved"]

\* Caller c's save is now op, the other callers' saves are others: a save that has
\* ended leaves its outcome in last and frees its caller
Becomes(c, op, others) ==
    /\ ops' = [others EXCEPT ![c] = IF op.pc \in {"failed", "saved"} THEN Idle ELSE op]
    /\ last' = IF op.pc = "failed"
               THEN [ok |-> FALSE, msg |-> op.error.msg, value |-> op.error.value,
                     kind |-> op.kind, doc |-> op.doc]
               ELSE IF op.pc = "saved" THEN [ok |-> TRUE, kind |-> op.kind, doc |-> op.doc]
               ELSE last

\* doc.set(path, value): the path counts as modified only when the value changes
SetPath(op, path, value) ==
    IF op.doc[path] = value THEN op
    ELSE [op EXCEPT !.doc[path] = value, !.modified = @ \cup {path}]

IsModified(op, path) == op.isNew \/ path \in op.modified

----------------------------------------------------------------------------
(* Event: schema (event.model.ts 23-102) and pre-save hook (175-228)       *)

\* the string paths of the schema
EventPaths == {"title", "slug", "description", "overview", "image", "venue", "location",
               "date", "time", "mode", "audience", "organizer"}

\* paths declared with trim: true
EventTrimmed == {"title", "description", "overview", "venue", "location", "audience",
                 "organizer"}

\* paths declared required
EventRequired == EventPaths \ {"slug"}

\* enum: ['online', 'offline', 'hybrid']
ModeEnum == {<<"o", "n", "l", "i", "n", "e">>, <<"o", "f", "f", "l", "i", "n", "e">>,
             <<"h", "y", "b", "r", "i", "d">>}

EventSetter(path, value) == IF path \in EventTrimmed THEN trim(value) ELSE value

\* requiredFields of the hook, in its order
requiredFields == <<"title", "description", "overview", "image", "venue", "location",
                    "date", "time", "mode", "audience", "organizer">>

\* Schema validation, which runs before the pre-save hook: a required string
\* must not be the empty string, and mode must be one of the enum's values. The
\* error names every path that failed
ValidateEvent(doc) ==
    LET invalid == {path \in EventRequired : doc[path] = <<>>}
                       \cup (IF doc.mode \in ModeEnum THEN {} ELSE {"mode"})
    IN  IF invalid = {} THEN Ok(doc)
        ELSE [ok |-> FALSE, msg |-> "Event validation failed",
              value |-> SelectSeq(requiredFields, LAMBDA path : path \in invalid)]

\* A schema whose slug path lacks unique: true: every write is accepted
SlugIndexAbsent(id, slug) == TRUE

\* slug: { unique: true, index: true }: the collection refuses a write that would
\* give the document id a slug another stored document holds
SlugIndexAllows(id, slug) ==
    \A j \in EventIds : j # id /\ events[j] # NoDoc => events[j].slug # slug

DuplicateKey(slug) == [ok |-> FALSE, msg |-> "E11000 duplicate key error", value |-> slug]

\* A query without _id: { $ne: this._id }: the document's own stored slug counts
SlugExistsAnywhere(slug, id) ==
    \E j \in EventIds : events[j] # NoDoc /\ events[j].slug = slug

\* EventModel.exists({ slug, _id: { $ne: this._id } })
SlugExists(slug, id) ==
    \E j \in EventIds : j # id /\ events[j] # NoDoc /\ events[j].slug = slug

\* A hook that normalises date and time and calls next() without its check of
\* the required strings
PreSaveEventRestUnchecked(op) ==
    LET date == IF IsModified(op, "date") THEN normalizeDateToISO(op.doc.date)
                ELSE Ok(op.doc.date)
        time == IF IsModified(op, "time") THEN normalizeTime(op.doc.time)
                ELSE Ok(op.doc.time)
    IN  IF ~date.ok THEN Failed(op, date)
        ELSE IF ~time.ok THEN Failed(SetPath(op, "date", date.val), time)
        ELSE [SetPath(SetPath(op, "date", date.val), "time", time.val) EXCEPT !.pc = "commit"]

\* The hook after the slug: normalise date and time, check the required strings,
\* then next() or next(error)
PreSaveEventRest(op) ==
    LET date == IF IsModified(op, "date") THEN normalizeDateToISO(op.doc.date)
                ELSE Ok(op.doc.date)
        time == IF IsModified(op, "time") THEN normalizeTime(op.doc.time)
                ELSE Ok(op.doc.time)
    IN  IF ~date.ok THEN Failed(op, date)
        ELSE IF ~time.ok THEN Failed(SetPath(op, "date", date.val), time)
        ELSE LET op2   == SetPath(SetPath(op, "date", date.val), "time", time.val)
                 empty == {i \in DOMAIN requiredFields : trim(op2.doc[requiredFields[i]]) = <<>>}
             IN  IF empty # {}
                 THEN Failed(op2, Throw(" cannot be empty",
                                        <<requiredFields[CHOOSE i \in empty : \A j \in empty : i <= j]>>))
                 ELSE [op2 EXCEPT !.pc = "commit"]

\* The hook from its start to its first await
PreSaveEvent(op) ==
    IF IsModified(op, "title")
    THEN LET baseSlug == generateSlug(op.doc.title)
         IN  [op EXCEPT !.pc = "probe", !.base = baseSlug, !.slug = baseSlug, !.counter = 1]
    ELSE PreSaveEventRest(op)

\* document.save(): validation, then the hook
SaveEvent(op) ==
    IF ValidateEvent(op.doc).ok THEN PreSaveEvent(op) ELSE Failed(op, ValidateEvent(op.doc))

\* What callers submit
Titles == {<<"A">>, <<"a">>, <<"a", " ", "1">>}

Descriptions == {<<"d", "1">>}

Image == <<"i">>

Blank == <<" ">>

Online == <<"o", "n", "l", "i", "n", "e">>

\* Inputs that differ in title, description, image, date and time
EventInputs(titles, descriptions, images, dates, times) ==
    [title : titles, description : descriptions, overview : {<<"o">>}, image : images,
     venue : {<<"v">>}, location : {<<"l">>}, date : dates, time : times,
     mode : {Online}, audience : {<<"u">>}, organizer : {<<"g">>}]

NewDescription == <<"d", "2">>

IsoDate == <<"2", "0", "2", "4", "-", "0", "5", "-", "2", "0">>

SlashDate == <<"5", "/", "2", "0", "/", "2", "0", "2", "4">>

Dates == {IsoDate, SlashDate, <<"s", "o", "o", "n">>}

ClockTime == <<"2", ":", "3", "0", " ", "P", "M">>

NewDate == <<"2", "0", "2", "4", "-", "0", "6", "-", "0", "1">>

NewTime == <<"9", ":", "0", "0">>

Times == {ClockTime, <<"9", ":", "7", "5">>, <<"n", "o", "o", "n">>}

\* new Event(input).save()
CreateEvent(c, input) ==
    /\ ops[c].pc = "idle"
    /\ nextId <= MaxEvents
    /\ LET doc == [path \in EventPaths |->
                      IF path = "slug" THEN <<>> ELSE EventSetter(path, input[path])]
           op  == [Idle EXCEPT !.kind = "event", !.isNew = TRUE, !.id = nextId,
                               !.doc = doc, !.raw = input,
                               !.touched = EventPaths \ {"slug"}]
       IN  Becomes(c, SaveEvent(op), ops)
    /\ nextId' = nextId + 1
    /\ started' = started + 1
    /\ UNCHANGED <<events, bookings, hostTz, call, connVars>>

\* const e = await Event.findById(id); e[path] = value; e.save()
UpdateEvent(c, id, input) ==
    /\ ops[c].pc = "idle"
    /\ events[id] # NoDoc
    /\ LET op  == [Idle EXCEPT !.kind = "event", !.id = id, !.doc = events[id],
                               !.raw = input]
           set == SetPath(op, input.path, EventSetter(input.path, input.value))
       IN  Becomes(c, SaveEvent([set EXCEPT !.touched = set.modified]), ops)
    /\ started' = started + 1
    /\ UNCHANGED <<events, bookings, nextId, hostTz, call, connVars>>

\* A loop that increments the counter before it formats the candidate
CandidateAfterIncrement(baseSlug, counter) == baseSlug \o <<"-">> \o NatToString(counter + 1)

\* `${baseSlug}-${counter}`
Candidate(baseSlug, counter) == baseSlug \o <<"-">> \o NatToString(counter)

\* A loop that forgets counter++: every further candidate is the same one
ProbeSlugSameCandidate(c) ==
    /\ ops[c].pc = "probe"
    /\ LET op == ops[c]
       IN  Becomes(c, IF SlugExists(op.slug, op.id)
                      THEN [op EXCEPT !.slug = Candidate(op.base, op.counter)]
                      ELSE PreSaveEventRest(SetPath(op, "slug", op.slug)),
                   ops)
    /\ UNCHANGED <<events, bookings, nextId, started, hostTz, call, connVars>>

\* One round of the while loop: the existence query and what the hook does with
\* its answer
ProbeSlug(c) ==
    /\ ops[c].pc = "probe"
    /\ LET op == ops[c]
       IN  Becomes(c, IF SlugExists(op.slug, op.id)
                      THEN [op EXCEPT !.slug = Candidate(op.base, op.counter),
                                      !.counter = op.counter + 1]
                      ELSE PreSaveEventRest(SetPath(op, "slug", op.slug)),
                   ops)
    /\ UNCHANGED <<events, bookings, nextId, started, hostTz, call, connVars>>

\* The other saves in flight see the collection change under them
Disturbed(c) ==
    [d \in Callers |->
        IF d # c /\ ops[d].pc # "idle" THEN [ops[d] EXCEPT !.alone = FALSE] ELSE ops[d]]

\* A write that replaces the stored document by the caller's copy of it
WrittenWhole(op) == op.doc

\* What the write puts in the collection: the new document, or the stored one with
\* the modified paths set
Written(op) ==
    IF op.isNew THEN op.doc
    ELSE [path \in EventPaths |->
             IF path \in op.modified THEN op.doc[path] ELSE events[op.id][path]]

\* The write that follows next(): an insert of the new document, or an update that
\* sets the modified paths of an existing one
CommitEvent(c) ==
    /\ ops[c].pc = "commit" /\ ops[c].kind = "event"
    /\ LET op == ops[c]
       IN  IF ~op.isNew /\ op.modified = {}
           THEN /\ Becomes(c, Saved(op), ops)
                /\ UNCHANGED events
           ELSE IF ~op.isNew /\ events[op.id] = NoDoc
           THEN /\ Becomes(c, Failed(op, [ok |-> FALSE, msg |-> "DocumentNotFoundError",
                                          value |-> NatToString(op.id)]), ops)
                /\ UNCHANGED events
           ELSE IF IsModified(op, "slug") /\ ~SlugIndexAllows(op.id, op.doc.slug)
           THEN /\ Becomes(c, Failed(op, DuplicateKey(op.doc.slug)), ops)
                /\ UNCHANGED events
           ELSE /\ events' = [events EXCEPT ![op.id] = Written(op)]
                /\ Becomes(c, Saved(op), Disturbed(c))
    /\ UNCHANGED <<bookings, nextId, started, hostTz, call, connVars>>

----------------------------------------------------------------------------
(* Booking: schema (part_000 12-37) and pre-save hook (40-58)              *)

NotBlankOrAt(s) == \A i \in DOMAIN s : s[i] \notin WhiteSpace \cup {"@"}

\* A pattern that asks only for an "@" between two non-empty parts
EMAIL_REGEX_NoDot(email) ==
    \E i \in DOMAIN email :
        /\ 1 < i /\ i < Len(email)
        /\ email[i] = "@"
        /\ NotBlankOrAt(SubSeq(email, 1, i - 1))
        /\ NotBlankOrAt(SubSeq(email, i + 1, Len(email)))

\* EMAIL_REGEX.test(email): /^[^\s@]+@[^\s@]+\.[^\s@]+$/
EMAIL_REGEX(email) ==
    \E i, j \in DOMAIN email :
        /\ 1 < i /\ i + 1 < j /\ j < Len(email)
        /\ email[i] = "@" /\ email[j] = "."
        /\ NotBlankOrAt(SubSeq(email, 1, i - 1))
        /\ NotBlankOrAt(SubSeq(email, i + 1, j - 1))
        /\ NotBlankOrAt(SubSeq(email, j + 1, Len(email)))

\* email: { trim: true, lowercase: true }
EmailSetter(value) == toLowerCase(trim(value))

\* Schema validation: email is required and must pass the validator
ValidateBooking(doc) ==
    IF doc.email = <<>>
    THEN [ok |-> FALSE, msg |-> "Booking validation failed: Email is required", value |-> doc.email]
    ELSE IF ~EMAIL_REGEX(doc.email)
    THEN [ok |-> FALSE, msg |-> "Booking validation failed: Invalid email format", value |-> doc.email]
    ELSE Ok(doc)

\* The hook from its start to its await of Event.exists
PreSaveBooking(op) ==
    IF ~EMAIL_REGEX(op.doc.email)
    THEN Failed(op, Throw("Invalid email format: ", op.doc.email))
    ELSE [op EXCEPT !.pc = "lookup"]

SaveBooking(op) ==
    IF ValidateBooking(op.doc).ok THEN PreSaveBooking(op) ELSE Failed(op, ValidateBooking(op.doc))

Emails == {<<" ", "A", "@", "b", ".", "c", " ">>,
           <<"n", "o", "t", "-", "a", "n", "-", "e", "m", "a", "i", "l">>,
           <<"a", "@", "b">>,
           <<"a", " ", "b", "@", "c", ".", "d">>}

BookingInputs == [eventId : EventIds, email : Emails]

\* new Booking(input).save()
CreateBooking(c, input) ==
    /\ ops[c].pc = "idle"
    /\ LET doc == [eventId |-> input.eventId, email |-> EmailSetter(input.email)]
           op  == [Idle EXCEPT !.kind = "booking", !.isNew = TRUE, !.doc = doc,
                               !.raw = input]
       IN  Becomes(c, SaveBooking(op), ops)
    /\ started' = started + 1
    /\ UNCHANGED <<events, bookings, nextId, hostTz, call, connVars>>

\* A lookup that finds every identifier
EventExistsAlways(id) == TRUE

\* Event.exists({ _id: id })
EventExists(id) == events[id] # NoDoc

\* A hook that calls next() whatever the lookup answers
LookupEventSkipped(c) ==
    /\ ops[c].pc = "lookup"
    /\ Becomes(c, [ops[c] EXCEPT !.pc = "commit"], ops)
    /\ UNCHANGED <<events, bookings, nextId, started, hostTz, call, connVars>>

\* await Event.exists({ _id: this.eventId }) and what the hook does with its answer
LookupEvent(c) ==
    /\ ops[c].pc = "lookup"
    /\ LET op == ops[c]
       IN  Becomes(c, IF ~EventExists(op.doc.eventId)
                      THEN Failed(op, Throw("Event with ID does not exist: ",
                                             NatToString(op.doc.eventId)))
                      ELSE [op EXCEPT !.pc = "commit"],
                   ops)
    /\ UNCHANGED <<events, bookings, nextId, started, hostTz, call, connVars>>

\* The insert that follows next()
CommitBooking(c) ==
    /\ ops[c].pc = "commit" /\ ops[c].kind = "booking"
    /\ bookings' = Append(bookings, ops[c].doc)
    /\ Becomes(c, Saved(ops[c]), ops)
    /\ UNCHANGED <<events, nextId, started, hostTz, call, connVars>>

\* Event.findByIdAndDelete(id): the document leaves the collection, under whatever
\* saves are in flight
RemoveEvent(id) ==
    /\ events[id] # NoDoc
    /\ events' = [events EXCEPT ![id] = NoDoc]
    /\ ops' = [d \in Callers |->
                  IF ops[d].pc # "idle" THEN [ops[d] EXCEPT !.alone = FALSE] ELSE ops[d]]
    /\ UNCHANGED <<bookings, nextId, started, last, hostTz, call, connVars>>

----------------------------------------------------------------------------
(* The program: callers saving events and bookings concurrently            *)

TimeZones == {-300, 0, 60}

\* Saves of events whose titles collide, by concurrent callers
SlugInputs == EventInputs(Titles, Descriptions, {Image}, {IsoDate}, {ClockTime})

SlugUpdates ==
    [path : {"title"}, value : Titles] \cup [path : {"description"}, value : {NewDescription}]
        \cup [path : {"date"}, value : {NewDate}] \cup [path : {"time"}, value : {NewTime}]

Init ==
    /\ EmptyStore
    /\ Disconnected
    /\ hostTz = 0
    /\ call = NoCall

Next ==
    \/ \E c \in Callers, input \in SlugInputs :
            started < MaxSaves /\ CreateEvent(c, input)
    \/ \E c \in Callers, id \in EventIds, input \in SlugUpdates :
            started < MaxSaves /\ UpdateEvent(c, id, input)
    \/ \E c \in Callers : ProbeSlug(c)
    \/ \E c \in Callers : CommitEvent(c)

Spec == Init /\ [][Next]_vars

----------------------------------------------------------------------------
(* Properties of the saves of events with colliding titles (Spec)          *)

Stored == {i \in EventIds : events[i] # NoDoc}

\* C1: in every reachable state no two stored Event documents share a slug, also
\* when two saves of the same title interleave: both may find the slug free, and
\* the second to commit is refused by the collection with a duplicate-key error.
C1_SlugsUnique ==
    \A i, j \in Stored : i # j => events[i].slug # events[j].slug

\* Two saves raced: one document holds the slug and the last save to end was
\* refused with the duplicate-key error for that very slug
C1_Witness ==
    /\ ~last.ok /\ last.msg = "E11000 duplicate key error"
    /\ \E i \in Stored : events[i].slug = last.value

\* The slug the claim describes for a document id with base slug base: the base if
\* no other stored document holds it, else base-k for the least k >= 1 that no
\* other stored document holds
HeldByOther(slug, id) == \E j \in Stored : j # id /\ events[j].slug = slug

LeastFree(base, id) ==
    CHOOSE k \in 1..(MaxEvents + 1) :
        /\ ~HeldByOther(base \o <<"-">> \o NatToString(k), id)
        /\ \A n \in 1..(k - 1) : HeldByOther(base \o <<"-">> \o NatToString(n), id)

DescribedSlug(base, id) ==
    IF ~HeldByOther(base, id) THEN base
    ELSE base \o <<"-">> \o NatToString(LeastFree(base, id))

\* C2: a save that derives its slug while no other save changes the collection
\* assigns the base slug if no other document holds it, otherwise base-k for the
\* smallest k >= 1 that no other document holds; so saves of one title made one
\* after another get base, base-1, base-2, ...
C2_SequentialSlugs ==
    \A c \in Callers :
        (ops[c].pc = "commit" /\ ops[c].kind = "event" /\ IsModified(ops[c], "title")
            /\ ops[c].alone)
        => ops[c].doc.slug = DescribedSlug(generateSlug(ops[c].doc.title), ops[c].id)

\* Three documents of one title are stored with slugs base, base-1 and base-2, and a
\* document whose own base slug is that base-1 is being saved with base-1-1
C2_Witness ==
    /\ \E i, j \in Stored :
          /\ events[i].title = <<"A">> /\ events[i].slug = <<"a">>
          /\ events[j].title = <<"A">> /\ events[j].slug = <<"a", "-", "1">>
    /\ \E c \in Callers :
          /\ ops[c].pc = "commit" /\ ops[c].alone
          /\ ops[c].doc.title = <<"a", " ", "1">>
          /\ ops[c].doc.slug = <<"a", "-", "1", "-", "1">>

\* C4: an update that does not modify the title leaves the stored slug as it is,
\* whatever other documents are stored, and one that does not modify date or time
\* leaves the stored date or time as it is; in particular an update of description
\* alone changes none of slug, date and time.
C4_UpdateFrame ==
    [][\A c \in Callers :
          (ops[c].pc = "commit" /\ ops[c].kind = "event" /\ ~ops[c].isNew
              /\ ops'[c].pc = "idle" /\ events[ops[c].id] # NoDoc)
          => \A path \in {"slug", "date", "time"} :
                (IF path = "slug" THEN "title" ELSE path) \notin ops[c].touched
                => events'[ops[c].id][path] = events[ops[c].id][path]]_vars

\* A description-only update of a document that carries a suffixed slug (another
\* document holds its base slug) has been committed
C4_Witness ==
    /\ last.ok /\ last.kind = "event"
    /\ \E i, j \in Stored :
          /\ i # j
          /\ events[i].description = NewDescription
          /\ events[i].slug = generateSlug(events[i].title) \o <<"-", "1">>
          /\ events[j].slug = generateSlug(events[i].title)

\* Caller c's probe makes an existence check in this step: its counter-th
Checks(c) ==
    /\ ops[c].pc = "probe"
    /\ ops'[c].pc # "probe" \/ ops'[c].slug # ops[c].slug \/ ops'[c].counter # ops[c].counter

\* ... and it is its last one: the candidate is held by no other record
LastCheck(c) == ops[c].pc = "probe" /\ ops'[c].pc # "probe"

OtherRecords(c) == Cardinality(Stored \ {ops[c].id})

\* C19 as claimed: the probe of every save ends, and when it ends it has made at
\* most (number of other records present + 1) existence checks, whatever other
\* saves ran meanwhile.
C19_ProbeBounded ==
    [][\A c \in Callers : LastCheck(c) => ops[c].counter <= OtherRecords(c) + 1]_vars

\* C19 as amended: every existence check either ends the loop, after which the
\* save commits or fails, or moves the probe on to the next candidate, and the
\* probe never makes more checks than saves have been started (each candidate it
\* finds taken was stored by a different save): so with finitely many other saves
\* the loop ends once its queries are answered. When no other save changed the
\* collection meanwhile it ends after at most (number of other records + 1) checks;
\* a save that commits during the probe can cost it more.
C19_ProbeTerminates ==
    /\ [](\A c \in Callers : ops[c].pc = "probe" => ops[c].counter <= started)
    /\ [][\A c \in Callers :
              /\ Checks(c) =>
                    \/ ops'[c].pc = "commit"
                    \/ ops'[c].pc = "idle" /\ ~last'.ok
                    \/ /\ ops'[c].pc = "probe"
                       /\ ops'[c].counter = ops[c].counter + 1
                       /\ ops'[c].slug = ops[c].base \o <<"-">> \o NatToString(ops[c].counter)
              /\ (LastCheck(c) /\ ops[c].alone)
                    => ops[c].counter <= OtherRecords(c) + 1]_vars

\* A save found the base slug and the first suffix taken and left its loop at its
\* third check, with two other records stored and nothing changed meanwhile
C19_Witness ==
    \E c \in Callers :
        /\ ops[c].pc = "commit" /\ ops[c].alone /\ ops[c].isNew
        /\ ops[c].counter = 3
        /\ Cardinality(Stored) = 2

----------------------------------------------------------------------------
(* Events that are retitled again and again (SpecTitles)                   *)

MaxTitleSaves == 4

RetitledInputs == EventInputs({<<"A">>}, Descriptions, {Image}, {IsoDate}, {ClockTime})

TitleUpdates == [path : {"title"}, value : Titles]

NextTitles ==
    \/ \E c \in Callers, input \in RetitledInputs :
            started < MaxTitleSaves /\ CreateEvent(c, input)
    \/ \E c \in Callers, id \in EventIds, input \in TitleUpdates :
            started < MaxTitleSaves /\ UpdateEvent(c, id, input)
    \/ \E c \in Callers : ProbeSlug(c)
    \/ \E c \in Callers : CommitEvent(c)

SpecTitles == Init /\ [][NextTitles]_vars

\* Caller c's save of a stored document with a modified title whose base slug is
\* the base slug of the stored title commits in this step, no other save having
\* changed the collection since it started
RetitledSameBase(c) ==
    /\ ops[c].pc = "commit" /\ ops[c].kind = "event" /\ ~ops[c].isNew
    /\ ops[c].alone
    /\ events[ops[c].id] # NoDoc
    /\ "title" \in ops[c].modified
    /\ generateSlug(ops[c].doc.title) = generateSlug(events[ops[c].id].title)
    /\ last'.ok /\ ops'[c].pc = "idle"

\* C18 as claimed: a stored Event saved with a modified title of the same base slug
\* keeps its slug exactly, no record having been added or removed.
C18_SlugKept ==
    [][\A c \in Callers :
          RetitledSameBase(c) => events'[ops[c].id].slug = events[ops[c].id].slug]_vars

\* C18 as amended: the collision check leaves out the record being saved, so a
\* stored Event saved with a modified title of the same base slug keeps its slug
\* exactly whenever the slugs that slug was probed past (the base slug and the
\* lower suffixes) are still held by other records; its own stored slug never
\* makes it move. When another record has given up one of them, by being retitled
\* or removed, the Event takes the first free one instead.
C18_SlugKeptWhileOthersHold ==
    [][\A c \in Callers :
          RetitledSameBase(c)
          => /\ events[ops[c].id].slug = DescribedSlug(generateSlug(ops[c].doc.title), ops[c].id)
                   => events'[ops[c].id].slug = events[ops[c].id].slug
             /\ events'[ops[c].id].slug = DescribedSlug(generateSlug(ops[c].doc.title), ops[c].id)]_vars

\* The event with slug a-1 has just been retitled from "A" to "a" and kept a-1,
\* while another event holds a
C18_Witness ==
    /\ last.ok /\ last.kind = "event"
    /\ last.doc.title = <<"a">> /\ last.doc.slug = <<"a", "-", "1">>
    /\ \E i, j \in Stored :
          /\ events[i] = last.doc
          /\ events[j].slug = <<"a">>

\* Saves of events with dates and times as typed, and of bookings
MaxFormSaves == 2

FormInputs == EventInputs({<<"A">>}, Descriptions, {Image}, Dates, Times)

FormUpdates ==
    [path : {"description"}, value : {NewDescription}]
        \cup [path : {"image"}, value : {Blank}]
        \cup [path : {"date"}, value : Dates] \cup [path : {"time"}, value : Times]

InitForms ==
    /\ EmptyStore
    /\ Disconnected
    /\ hostTz \in TimeZones
    /\ call = NoCall

NextForms ==
    \/ \E c \in Callers, input \in FormInputs :
            started < MaxFormSaves /\ CreateEvent(c, input)
    \/ \E c \in Callers, id \in EventIds, input \in FormUpdates :
            started < MaxFormSaves /\ UpdateEvent(c, id, input)
    \/ \E c \in Callers : ProbeSlug(c)
    \/ \E c \in Callers : CommitEvent(c)
    \/ \E c \in Callers, input \in BookingInputs :
            started < MaxFormSaves /\ CreateBooking(c, input)
    \/ \E c \in Callers : LookupEvent(c)
    \/ \E c \in Callers : CommitBooking(c)

SpecForms == InitForms /\ [][NextForms]_vars

----------------------------------------------------------------------------
(* Properties of the saves of typed dates and times and of bookings        *)
(* (SpecForms)                                                             *)

\* YYYY-MM-DD
IsCanonicalDate(s) == IsoDateShape(s)

\* zero-padded HH:MM with hour 00-23 and minute 00-59
IsCanonicalTime(s) ==
    /\ Len(s) = 5 /\ s[3] = ":"
    /\ \A i \in {1, 2, 4, 5} : s[i] \in Digits
    /\ ParseNat(SubSeq(s, 1, 2)) <= 23
    /\ ParseNat(SubSeq(s, 4, 5)) <= 59

\* C5: in every reachable state every stored Event has its date as YYYY-MM-DD and
\* its time as zero-padded 24-hour HH:MM with hour 00-23 and minute 00-59.
C5_StoredCanonical ==
    \A i \in Stored : IsCanonicalDate(events[i].date) /\ IsCanonicalTime(events[i].time)

\* C8: an Event created with the raw date 5/20/2024 is stored, and so read back,
\* with date 2024-05-20.
C8_SlashDateRoundTrip ==
    [][\A c \in Callers :
          (ops[c].pc = "commit" /\ ops[c].kind = "event" /\ ops[c].isNew
              /\ ops[c].raw.date = SlashDate /\ events'[ops[c].id] # NoDoc)
          => events'[ops[c].id].date = IsoDate]_vars

\* lowercase, trimmed, and of the shape local@domain.tld: one "@" with a non-empty
\* local part before it, no blank anywhere, and after the "@" a "." with at least one
\* character on each side of it
EmailWellFormed(s) ==
    /\ \A i \in DOMAIN s : s[i] \notin WhiteSpace /\ s[i] \notin Range(UpperSeq)
    /\ Cardinality({i \in DOMAIN s : s[i] = "@"}) = 1
    /\ LET at == CHOOSE i \in DOMAIN s : s[i] = "@"
       IN  /\ at > 1
           /\ \E j \in (at + 2)..(Len(s) - 1) : s[j] = "."

C10_StoredEmailsValid ==
    /\ \A i \in DOMAIN bookings : EmailWellFormed(bookings[i].email)
    /\ \A c \in Callers : ops[c].kind = "booking" => EmailWellFormed(ops[c].doc.email)

C10_RejectedStep ==
    \A c \in Callers, input \in BookingInputs :
        (CreateBooking(c, input) /\ ~EmailWellFormed(EmailSetter(input.email)))
        => /\ ops'[c].pc = "idle"
           /\ ~last'.ok /\ last'.value = EmailSetter(input.email)
           /\ bookings' = bookings /\ events' = events

\* C10: a Booking save whose email does not match local@domain.tld ends with an
\* error in the step that starts it, before the existence lookup and before any
\* write (both collections unchanged); so every stored Booking, and every Booking
\* on its way to the collection, has a lowercase, trimmed, well-formed email.
C10_InvalidEmailRejected == []C10_StoredEmailsValid /\ [][C10_RejectedStep]_vars

\* "not-an-email" has just been rejected while an event is stored and no booking is
C10_Witness ==
    /\ ~last.ok
    /\ last.msg = "Booking validation failed: Invalid email format"
    /\ last.value = <<"n", "o", "t", "-", "a", "n", "-", "e", "m", "a", "i", "l">>
    /\ Stored # {}
    /\ bookings = <<>>

\* A save has ended with an error in this step: one that was in flight, or one
\* that started and failed at once
SaveFails ==
    /\ ~last'.ok
    /\ \/ started' = started + 1 /\ ops' = ops
       \/ \E c \in Callers : ops[c].pc # "idle" /\ ops'[c].pc = "idle"

\* The error e is what the failing step raised for the document being saved: its
\* message is that step's and it carries the value that step rejected
IsTriggeringError(e) ==
    CASE e.msg = "Event validation failed" ->
            /\ e.kind = "event" /\ e.value # <<>>
            /\ \A i \in DOMAIN e.value :
                  \/ e.doc[e.value[i]] = <<>>
                  \/ e.value[i] = "mode" /\ e.doc.mode \notin ModeEnum
      [] e.msg = "Invalid date format: " ->
            /\ e.kind = "event" /\ e.value = e.doc.date
            /\ ~normalizeDateToISO(e.value).ok
      [] e.msg = "Invalid time format: " ->
            /\ e.kind = "event" /\ e.value = e.doc.time
            /\ ~normalizeTime(e.value).ok
            /\ IsCanonicalDate(e.doc.date)
      [] e.msg = " cannot be empty" ->
            /\ e.kind = "event" /\ Len(e.value) = 1
            /\ \A i \in DOMAIN e.doc[e.value[1]] : e.doc[e.value[1]][i] \in WhiteSpace
      [] e.msg = "E11000 duplicate key error" ->
            e.kind = "event" /\ e.value = e.doc.slug
      [] e.msg \in {"Booking validation failed: Email is required",
                    "Booking validation failed: Invalid email format"} ->
            e.kind = "booking" /\ e.value = e.doc.email /\ ~EmailWellFormed(e.doc.email)
      [] e.msg = "Event with ID does not exist: " ->
            e.kind = "booking" /\ e.value = NatToString(e.doc.eventId)
      [] OTHER -> FALSE

C12_NoPartialCommit ==
    /\ SaveFails => events' = events /\ bookings' = bookings
    /\ (events' # events \/ bookings' # bookings)
          => last'.ok /\ \E c \in Callers : ops[c].pc = "commit" /\ ops'[c].pc = "idle"

\* C12: for the Event hook and the Booking hook alike, a save that fails in any
\* step of its pipeline (invalid date, invalid time, empty required field, invalid
\* email, missing event) writes nothing: the step in which it fails leaves both
\* collections as they were, and the collections change only in a step that ends a
\* save with success; and the error handed to the caller is the one the failing
\* step raised, with that step's message and the value it rejected.
C12_FailureBlocksWrite ==
    [](~last.ok => IsTriggeringError(last)) /\ [][C12_NoPartialCommit]_vars

\* A save with a blank image has just failed in the hook's check of the required
\* fields, after its slug was derived and its date and time were normalised, while
\* another event is stored
C12_Witness ==
    /\ ~last.ok
    /\ last.msg = " cannot be empty" /\ last.value = <<"image">>
    /\ last.doc.slug # <<>> /\ last.doc.date = IsoDate
    /\ Stored # {}

----------------------------------------------------------------------------
(* Saves of events with blank fields (SpecRequired)                        *)

MaxRequiredSaves == 2

Filled == CHOOSE input \in EventInputs({<<"A">>}, Descriptions, {Image}, {IsoDate}, {ClockTime}) : TRUE

\* What a field may hold instead: nothing, blanks, or for a date or a time words
Unfilled(path) ==
    {<<>>, <<" ", "\t">>}
        \cup (IF path = "date" THEN {<<"s", "o", "o", "n">>} ELSE {})
        \cup (IF path = "time" THEN {<<"n", "o", "o", "n">>} ELSE {})

OneUnfilled(input) ==
    UNION {{[input EXCEPT ![path] = value] : value \in Unfilled(path)} : path \in EventRequired}

\* Inputs with one field unfilled, and with a second one unfilled next to a blank
\* title, a blank image, a date in words or a time in words
RequiredInputs ==
    {Filled} \cup OneUnfilled(Filled)
        \cup OneUnfilled([Filled EXCEPT !.title = Blank])
        \cup OneUnfilled([Filled EXCEPT !.image = Blank])
        \cup OneUnfilled([Filled EXCEPT !.date = <<"s", "o", "o", "n">>])
        \cup OneUnfilled([Filled EXCEPT !.time = <<"n", "o", "o", "n">>])

RequiredUpdates == UNION {[path : {p}, value : Unfilled(p)] : p \in EventRequired}

InitRequired ==
    /\ EmptyStore
    /\ Disconnected
    /\ hostTz = 0
    /\ call = NoCall

NextRequired ==
    \/ \E c \in Callers, input \in RequiredInputs :
            started < MaxRequiredSaves /\ CreateEvent(c, input)
    \/ \E c \in Callers, id \in EventIds, input \in RequiredUpdates :
            started < MaxRequiredSaves /\ UpdateEvent(c, id, input)
    \/ \E c \in Callers : ProbeSlug(c)
    \/ \E c \in Callers : CommitEvent(c)

SpecRequired == InitRequired /\ [][NextRequired]_vars

\* The required string fields of a document that are empty after trimming
BlankFields(doc) ==
    {path \in EventRequired : \A i \in DOMAIN doc[path] : doc[path][i] \in WhiteSpace}

\* No Event that is stored or handed to the collection has a blank required field
NoBlankFieldCommitted ==
    /\ \A i \in Stored : BlankFields(events[i]) = {}
    /\ \A c \in Callers :
          (ops[c].pc = "commit" /\ ops[c].kind = "event") => BlankFields(ops[c].doc) = {}

\* The error e names the field path: as one of the paths that failed validation, as
\* the field that cannot be empty, or as the date or time of an invalid format
NamesField(e, path) ==
    \/ e.msg = "Event validation failed" /\ \E i \in DOMAIN e.value : e.value[i] = path
    \/ e.msg = " cannot be empty" /\ e.value = <<path>>
    \/ e.msg = "Invalid date format: " /\ path = "date"
    \/ e.msg = "Invalid time format: " /\ path = "time"

\* C17 as claimed: an Event save in which a required string field is empty after
\* trimming never commits and ends with an error that names an empty field, so no
\* stored Event has such a field.
C17_BlankFieldNamed ==
    /\ NoBlankFieldCommitted
    /\ (~last.ok /\ last.kind = "event" /\ BlankFields(last.doc) # {})
          => \E path \in BlankFields(last.doc) : NamesField(last, path)

\* The first field, in the order of requiredFields, that is blank in doc
FirstBlank(doc) ==
    requiredFields[CHOOSE i \in DOMAIN requiredFields :
                      /\ requiredFields[i] \in BlankFields(doc)
                      /\ \A j \in 1..(i - 1) : requiredFields[j] \notin BlankFields(doc)]

\* C17 as amended: an Event save in which a required string field is empty after
\* trimming never commits, so no stored Event has such a field. It ends with the
\* error of the first step that fails: schema validation, which names every empty
\* field; else normalisation, with the invalid-format error of a date or time it
\* rejects (a blank one or not, whatever other field is blank); else the hook's
\* check, which names the first blank field and runs with the slug derived and the
\* date and time normalised.
C17_BlankFieldRejected ==
    /\ NoBlankFieldCommitted
    /\ (~last.ok /\ last.kind = "event" /\ BlankFields(last.doc) # {})
          => \/ /\ last.msg = "Event validation failed"
                /\ \A path \in EventRequired :
                      last.doc[path] = <<>> => NamesField(last, path)
             \/ /\ last.msg = "Invalid date format: "
                /\ \A path \in EventRequired : last.doc[path] # <<>>
                /\ last.value = last.doc.date
             \/ /\ last.msg = "Invalid time format: "
                /\ \A path \in EventRequired : last.doc[path] # <<>>
                /\ last.value = last.doc.time
             \/ /\ last.msg = " cannot be empty"
                /\ last.value = <<FirstBlank(last.doc)>>
                /\ IsCanonicalDate(last.doc.date)
                /\ normalizeTime(last.doc.time) = Ok(last.doc.time)
                /\ last.doc.slug # <<>>

\* An update that blanks the image of a stored event has just been refused by the
\* hook's check, and the stored event keeps its image
C17_Witness ==
    /\ ~last.ok
    /\ last.msg = " cannot be empty" /\ last.value = <<"image">>
    /\ \E i \in Stored :
          /\ events[i].slug = last.doc.slug
          /\ events[i].image = Image /\ last.doc.image = <<" ", "\t">>

----------------------------------------------------------------------------
(* Bookings of events that come and go (SpecBookings)                      *)

MaxBookingSaves == 3

BookedEvents == EventInputs({<<"A">>}, Descriptions, {Image}, {IsoDate}, {ClockTime})

InitBookings ==
    /\ EmptyStore
    /\ Disconnected
    /\ hostTz = 0
    /\ call = NoCall

NextBookings ==
    \/ \E c \in Callers, input \in BookedEvents :
            started < MaxBookingSaves /\ CreateEvent(c, input)
    \/ \E c \in Callers : ProbeSlug(c)
    \/ \E c \in Callers : CommitEvent(c)
    \/ \E id \in EventIds : RemoveEvent(id)
    \/ \E c \in Callers, input \in BookingInputs :
            started < MaxBookingSaves /\ CreateBooking(c, input)
    \/ \E c \in Callers : LookupEvent(c)
    \/ \E c \in Callers : CommitBooking(c)

SpecBookings == InitBookings /\ [][NextBookings]_vars

\* C11: a Booking save whose eventId identifies no Event in the collection when
\* the hook looks it up ends there with an error that carries that identifier, and
\* the bookings collection is left as it was.
C11_MissingEventRejected ==
    [][\A c \in Callers :
          (ops[c].pc = "lookup" /\ ops'[c].pc # "lookup"
              /\ events[ops[c].doc.eventId] = NoDoc)
          => /\ ops'[c].pc = "idle"
             /\ ~last'.ok
             /\ last'.msg = "Event with ID does not exist: "
             /\ last'.value = NatToString(ops[c].doc.eventId)
             /\ bookings' = bookings]_vars

\* A booking of an event that was removed before the lookup has just been rejected,
\* while another event is stored and no booking is
C11_Witness ==
    /\ ~last.ok
    /\ last.msg = "Event with ID does not exist: "
    /\ events[last.doc.eventId] = NoDoc /\ last.doc.eventId < nextId
    /\ Stored # {}
    /\ bookings = <<>>

\* C16 as claimed: whenever a Booking is persisted, the Event its eventId names is
\* in the collection at that moment, whatever happened between the lookup and the
\* commit.
C16_EventExistsAtCommit ==
    [][bookings' # bookings
          => events[bookings'[Len(bookings')].eventId] # NoDoc]_vars

\* C16 as amended: whenever a Booking is persisted, the Event its eventId names was
\* in the collection when that save's hook looked it up; it may have been removed
\* between the lookup and the commit.
C16_EventExistedAtLookup ==
    [][/\ \A c \in Callers :
             (ops[c].pc = "lookup" /\ ops'[c].pc = "commit")
             => events[ops[c].doc.eventId] # NoDoc
       /\ bookings' # bookings
             => \E c \in Callers :
                   /\ ops[c].pc = "commit" /\ ops[c].kind = "booking"
                   /\ bookings' = Append(bookings, ops[c].doc)]_vars

\* The last save to end persisted a booking of an event that is no longer stored
C16_Witness ==
    /\ last.ok /\ last.kind = "booking"
    /\ bookings # <<>>
    /\ bookings[Len(bookings)] = last.doc
    /\ events[last.doc.eventId] = NoDoc

----------------------------------------------------------------------------
(* Direct calls of the helpers, on inputs drawn from bounded sets          *)

MaxTitleLen == 4

TitleAlphabet == {"a", "B", "1", " ", "-", "_", "!"}

TitleInputs == UNION {[1..n -> TitleAlphabet] : n \in 0..MaxTitleLen}

\* A time as typed: optional blanks, hour digits, ":", minute digits, blanks, a period
TimeHours == {NatToString(h) : h \in 0..25} \cup {padStart(NatToString(h), 2) : h \in 0..9}
                \cup {<<>>, <<"1", "2", "3">>, <<"9", "9">>}

TimeMinutes == {padStart(NatToString(m), 2) : m \in {0, 5, 30, 59, 60, 75}}
                  \cup {<<"5">>, <<"3", "0", "0">>}

TimeBlanks == {<<>>, <<" ">>, <<" ", "\t">>}

TimePeriods == {<<>>, <<"A", "M">>, <<"P", "M">>, <<"a", "m">>, <<"p", "m">>,
                <<"P", "m">>, <<"P">>, <<"X", "M">>}

TimeParts == [lead : {<<>>, <<" ">>}, hour : TimeHours, sep : {<<":">>, <<".">>},
              minute : TimeMinutes, gap : TimeBlanks, period : TimePeriods]

RenderTime(p) == p.lead \o p.hour \o p.sep \o p.minute \o p.gap \o p.period

\* A date as typed: a YYYY-MM-DD literal, a month/day/year date, or words
DateYears == {50, 99, 100, 1999, 2024, 9999}

DateParts == [kind : {"iso", "slash"}, year : DateYears, month : 0..13, day : 0..32]
                \cup {[kind |-> "words", year |-> 0, month |-> 0, day |-> 0]}

RenderDate(p) ==
    CASE p.kind = "iso" ->
            padStart(NatToString(p.year), 4) \o <<"-">> \o padStart(NatToString(p.month), 2)
                \o <<"-">> \o padStart(NatToString(p.day), 2)
      [] p.kind = "slash" ->
            NatToString(p.month) \o <<"/">> \o NatToString(p.day)
                \o <<"/">> \o padStart(NatToString(p.year), 4)
      [] OTHER -> <<"s", "o", "o", "n">>

NewCall(fn, parts, arg) == [NoCall EXCEPT !.fn = fn, !.parts = parts, !.arg = arg]

CallInputs ==
    {NewCall("generateSlug", None, t) : t \in TitleInputs}
        \cup {NewCall("normalizeTime", p, RenderTime(p)) : p \in TimeParts}
        \cup {NewCall("normalizeDateToISO", p, RenderDate(p)) : p \in DateParts}

InitCalls ==
    /\ EmptyStore
    /\ Disconnected
    /\ call \in CallInputs
    /\ hostTz \in (IF call.fn = "normalizeDateToISO" THEN TimeZones ELSE {0})

CallGenerateSlug ==
    /\ call.fn = "generateSlug" /\ call.stage = 0
    /\ call' = [call EXCEPT !.stage = 1, !.res = Ok(generateSlug(call.arg))]
    /\ UNCHANGED <<events, bookings, nextId, ops, started, last, hostTz, connVars>>

CallNormalizeTime ==
    /\ call.fn = "normalizeTime" /\ call.stage = 0
    /\ call' = [call EXCEPT !.stage = 1, !.res = normalizeTime(call.arg)]
    /\ UNCHANGED <<events, bookings, nextId, ops, started, last, hostTz, connVars>>

CallNormalizeDate ==
    /\ call.fn = "normalizeDateToISO" /\ call.stage = 0
    /\ call' = [call EXCEPT !.stage = 1, !.res = normalizeDateToISO(call.arg)]
    /\ UNCHANGED <<events, bookings, nextId, ops, started, last, hostTz, connVars>>

\* The helper applied again to what its first call returned
RenormalizeTime ==
    /\ call.fn = "normalizeTime" /\ call.stage = 1 /\ call.res.ok
    /\ call' = [call EXCEPT !.stage = 2, !.again = normalizeTime(call.res.val)]
    /\ UNCHANGED <<events, bookings, nextId, ops, started, last, hostTz, connVars>>

RenormalizeDate ==
    /\ call.fn = "normalizeDateToISO" /\ call.stage = 1 /\ call.res.ok
    /\ call' = [call EXCEPT !.stage = 2, !.again = normalizeDateToISO(call.res.val)]
    /\ UNCHANGED <<events, bookings, nextId, ops, started, last, hostTz, connVars>>

NextCalls ==
    \/ CallGenerateSlug
    \/ CallNormalizeTime
    \/ CallNormalizeDate
    \/ RenormalizeTime
    \/ RenormalizeDate

SpecCalls == InitCalls /\ [][NextCalls]_vars

----------------------------------------------------------------------------
(* Properties of the helpers called directly (SpecCalls)                   *)

Called(fn) == call.fn = fn /\ call.stage >= 1

\* lowercase letters, digits and hyphens only; no hyphen first or last; no two
\* hyphens in a row
SlugWellFormed(slug) ==
    /\ \A i \in DOMAIN slug : slug[i] \in Range(LowerSeq) \cup Digits \cup {"-"}
    /\ slug # <<>> => slug[1] # "-" /\ slug[Len(slug)] # "-"
    /\ \A i \in 1..(Len(slug) - 1) : ~(slug[i] = "-" /\ slug[i + 1] = "-")

\* C3: for every title that is not empty after trimming, generateSlug returns a
\* slug that is lowercase, has no character outside [a-z0-9-], and has no leading,
\* trailing or doubled hyphen.
C3_SlugWellFormed ==
    (Called("generateSlug") /\ trim(call.arg) # <<>>) => SlugWellFormed(call.res.val)

\* The time a typed time denotes, from the parts it was typed as
IsClock(p) == p.sep = <<":">> /\ Len(p.hour) \in {1, 2} /\ Len(p.minute) = 2

Is24Hour(p) == IsClock(p) /\ p.period = <<>> /\ ParseNat(p.hour) \in 0..23

\* (an hour 0 before AM or PM is read as hour 12, which is how the code reads it)
Is12Hour(p) ==
    /\ IsClock(p)
    /\ toUpperCase(p.period) \in {<<"A", "M">>, <<"P", "M">>}
    /\ ParseNat(p.hour) \in 0..12

HourDenoted(p) ==
    IF Is24Hour(p) THEN ParseNat(p.hour)
    ELSE IF toUpperCase(p.period) = <<"P", "M">>
         THEN 12 + (ParseNat(p.hour) % 12)
         ELSE ParseNat(p.hour) % 12

\* C6: normalizeTime maps a 24-hour H:MM or HH:MM with hour 0-23 to the same time
\* zero-padded, a 12-hour H:MM with optional blanks and AM/PM in any case to its
\* 24-hour equivalent (12 AM is hour 00, 12 PM is hour 12), and fails on any input
\* of another shape with an error that carries the input.
C6_TimeNormalized ==
    Called("normalizeTime") =>
        IF Is24Hour(call.parts) \/ Is12Hour(call.parts)
        THEN call.res = Ok(padStart(NatToString(HourDenoted(call.parts)), 2)
                               \o <<":">> \o call.parts.minute)
        ELSE ~call.res.ok /\ call.res.value = call.arg

\* The days of a month of the Gregorian calendar
IsLeapYear(y) == (y % 4 = 0 /\ y % 100 # 0) \/ y % 400 = 0

DaysInMonth(y, m) ==
    IF m = 2 THEN (IF IsLeapYear(y) THEN 29 ELSE 28)
    ELSE IF m \in {4, 6, 9, 11} THEN 30 ELSE 31

IsCalendarDate(p) == p.month \in 1..12 /\ p.day \in 1..DaysInMonth(p.year, p.month)

\* C7: for every YYYY-MM-DD literal of a real calendar date, in every host
\* timezone, normalizeDateToISO returns the literal itself.
C7_IsoLiteralKept ==
    (Called("normalizeDateToISO") /\ call.parts.kind = "iso" /\ IsCalendarDate(call.parts))
    => call.res = Ok(call.arg)

\* What C7 comes to on the code: the literal is kept, in every host timezone, when
\* its year is 0100 or later
IsoLiteralKeptFromYear100 ==
    (Called("normalizeDateToISO") /\ call.parts.kind = "iso" /\ IsCalendarDate(call.parts)
        /\ call.parts.year >= 100)
    => call.res = Ok(call.arg)

\* C9: normalizeDateToISO applied to a canonical date (the YYYY-MM-DD of a calendar
\* date), and normalizeTime applied to a canonical time (HH:MM), succeed and return
\* the string unchanged; in particular each applied to its own earlier output
\* returns that output.
C9_Idempotent ==
    /\ (Called("normalizeDateToISO") /\ call.parts.kind = "iso" /\ IsCalendarDate(call.parts))
          => call.res = Ok(call.arg)
    /\ (Called("normalizeTime") /\ IsCanonicalTime(call.arg)) => call.res = Ok(call.arg)
    /\ call.stage = 2 => call.again = call.res

\* What C9 comes to on the code: a real calendar date of year 0100 or later and a
\* time with hour 00-23 are returned unchanged
IdempotentOnValid ==
    /\ (Called("normalizeDateToISO") /\ call.parts.kind = "iso" /\ IsCalendarDate(call.parts)
          /\ call.parts.year >= 100) => call.res = Ok(call.arg)
    /\ (Called("normalizeTime") /\ IsCanonicalTime(call.arg)) => call.res = Ok(call.arg)
    /\ (call.stage = 2 /\ call.fn = "normalizeTime" /\ IsCanonicalTime(call.res.val))
          => call.again = call.res

----------------------------------------------------------------------------
(* Connecting to the database                                              *)
(*                                                                         *)
(* A connection is named by the attempt that opened it.  A promise settles *)
(* in one step; the calls suspended on it then resume one after the other  *)
(* from the microtask queue, and no new call runs before the last of them  *)
(* has resumed.  A call that finds a settled promise in the cache joins    *)
(* the calls suspended on it.                                              *)

MaxAttempts == 3

ConfigErrorApp == "MONGODB_URI environment variable is not defined. Please add it to your .env.local file."

ConnectError == "MongooseServerSelectionError"

Attempts == 1..Len(promises)

Returned(m, conn) == [ok |-> TRUE, msg |-> "", conn |-> conn, fn |-> m]

Thrown(m, msg) == [ok |-> FALSE, msg |-> msg, conn |-> 0, fn |-> m]

Suspended(p) == {k \in Clients : clients[k].pc = "await" /\ clients[k].promise = p}

\* Evaluation of src/lib/mongodb.ts: MONGODB_URI is read and checked once, here
ImportLib ==
    /\ imported # "yes"
    /\ running = 0
    /\ imported' = IF env = "missing" THEN "threw" ELSE "yes"
    /\ UNCHANGED <<env, cached, promises, clients, out, running>>
    /\ UNCHANGED storeVars

\* MONGODB_URI is added to the environment
SupplyUri ==
    /\ env = "missing"
    /\ running = 0
    /\ env' = "set"
    /\ UNCHANGED <<imported, cached, promises, clients, out, running>>
    /\ UNCHANGED storeVars

\* mongoose.connect(uri, ...) by client k: a new pending promise, cached by module m
Connect(k, m) ==
    /\ Len(promises) < MaxAttempts
    /\ promises' = Append(promises, [by |-> m, state |-> "pending"])
    /\ cached' = [cached EXCEPT ![m].promise = Len(promises) + 1]
    /\ clients' = [clients EXCEPT ![k] = [pc |-> "await", fn |-> m, promise |-> Len(promises) + 1]]
    /\ UNCHANGED out

\* `await cached.promise` by client k on the promise in the cache of module m
Await(k, m) ==
    /\ clients' = [clients EXCEPT ![k] = [pc |-> "await", fn |-> m, promise |-> cached[m].promise]]
    /\ UNCHANGED <<cached, promises, out>>

\* `return cached.conn`
ReturnCached(k, m) ==
    /\ out' = [out EXCEPT ![k] = Returned(m, cached[m].conn)]
    /\ UNCHANGED <<cached, promises, clients>>

\* A connectToDatabase that opens a connection whenever none is cached yet
connectToDatabaseEachTime(k) ==
    /\ clients[k].pc = "idle"
    /\ running = 0
    /\ imported = "yes"
    /\ IF cached["lib"].conn # 0
         THEN ReturnCached(k, "lib")
         ELSE Connect(k, "lib")
    /\ UNCHANGED <<env, imported, running>>
    /\ UNCHANGED storeVars

\* connectToDatabase() of src/lib/mongodb.ts, up to its await
connectToDatabase(k) ==
    /\ clients[k].pc = "idle"
    /\ running = 0
    /\ imported = "yes"
    /\ IF cached["lib"].conn # 0
         THEN ReturnCached(k, "lib")
         ELSE IF cached["lib"].promise = 0
                THEN Connect(k, "lib")
                ELSE Await(k, "lib")
    /\ UNCHANGED <<env, imported, running>>
    /\ UNCHANGED storeVars

\* connectToDatabase() of src/app/providers.tsx, up to its await
connectToDatabaseProviders(k) ==
    /\ clients[k].pc = "idle"
    /\ running = 0
    /\ IF cached["app"].conn # 0
         THEN ReturnCached(k, "app")
         ELSE IF cached["app"].promise = 0
                THEN IF env = "missing"
                       THEN /\ out' = [out EXCEPT ![k] = Thrown("app", ConfigErrorApp)]
                            /\ UNCHANGED <<cached, promises, clients>>
                       ELSE Connect(k, "app")
                ELSE Await(k, "app")
    /\ UNCHANGED <<env, imported, running>>
    /\ UNCHANGED storeVars

\* The promise of attempt p is fulfilled or rejected
Settle(p, state) ==
    /\ p \in Attempts
    /\ promises[p].state = "pending"
    /\ running = 0
    /\ promises' = [promises EXCEPT ![p].state = state]
    /\ UNCHANGED <<env, imported, cached, clients, out, running>>
    /\ UNCHANGED storeVars

\* The call of client k, suspended in module m, is the next to resume
Resumes(k, m) ==
    /\ clients[k].pc = "await"
    /\ clients[k].fn = m
    /\ promises[clients[k].promise].state # "pending"
    /\ running \in {0, clients[k].promise}
    /\ running' = IF Suspended(clients[k].promise) = {k} THEN 0 ELSE clients[k].promise
    /\ clients' = [clients EXCEPT ![k] = Waiting]

\* connectToDatabase() of src/lib/mongodb.ts, from its await on
connectToDatabaseAwaited(k) ==
    /\ Resumes(k, "lib")
    /\ LET p == clients[k].promise
       IN IF promises[p].state = "fulfilled"
            THEN /\ cached' = [cached EXCEPT !["lib"].conn = p]
                 /\ out' = [out EXCEPT ![k] = Returned("lib", p)]
            ELSE /\ out' = [out EXCEPT ![k] = Thrown("lib", ConnectError)]
                 /\ UNCHANGED cached
    /\ UNCHANGED <<env, imported, promises>>
    /\ UNCHANGED storeVars

\* connectToDatabase() of src/app/providers.tsx, from its await on
connectToDatabaseProvidersAwaited(k) ==
    /\ Resumes(k, "app")
    /\ LET p == clients[k].promise
       IN IF promises[p].state = "fulfilled"
            THEN /\ cached' = [cached EXCEPT !["app"].conn = p]
                 /\ out' = [out EXCEPT ![k] = Returned("app", p)]
            ELSE /\ cached' = [cached EXCEPT !["app"].promise = 0]
                 /\ out' = [out EXCEPT ![k] = Thrown("app", ConnectError)]
    /\ UNCHANGED <<env, imported, promises>>
    /\ UNCHANGED storeVars

InitConnect ==
    /\ EmptyStore
    /\ hostTz = 0
    /\ call = NoCall
    /\ env \in {"missing", "set"}
    /\ NoConnection

NextConnect ==
    \/ ImportLib
    \/ SupplyUri
    \/ \E k \in Clients : connectToDatabase(k)
    \/ \E k \in Clients : connectToDatabaseProviders(k)
    \/ \E p \in 1..MaxAttempts, state \in {"fulfilled", "rejected"} : Settle(p, state)
    \/ \E k \in Clients : connectToDatabaseAwaited(k)
    \/ \E k \in Clients : connectToDatabaseProvidersAwaited(k)

SpecConnect == InitConnect /\ [][NextConnect]_vars

(* Properties of SpecConnect                                               *)

InFlight(m) == {p \in Attempts : promises[p].by = m /\ promises[p].state = "pending"}

OneInFlight == \A m \in Modules : Cardinality(InFlight(m)) <= 1

SameConnection ==
    \A k1, k2 \in Clients :
        (out[k1].ok /\ out[k2].ok /\ out[k1].fn = out[k2].fn) => out[k1].conn = out[k2].conn

\* A cached connection is never replaced, and a call that returns hands out the cached one
ConnectionKept ==
    /\ \A m \in Modules : cached[m].conn # 0 => cached'[m].conn = cached[m].conn
    /\ \A k \in Clients :
          (out'[k] # out[k] /\ out'[k].ok) => out'[k].conn = cached'[out'[k].fn].conn

\* C13: each connectToDatabase has at most one connection attempt in flight at
\* any moment, whether callers arrive while it is pending or after an attempt
\* failed, and all its callers that return successfully receive the same
\* connection.
C13_OneAttemptOneConnection == []OneInFlight /\ []SameConnection /\ [][ConnectionKept]_vars

\* After a failed first attempt, two calls were suspended on the second attempt
\* of providers.tsx together; it succeeded, one has returned its connection and
\* the other resumes next.
C13_Witness ==
    /\ Len(promises) = 2
    /\ promises[1] = [by |-> "app", state |-> "rejected"]
    /\ promises[2] = [by |-> "app", state |-> "fulfilled"]
    /\ running = 2
    /\ \E k1, k2 \in Clients : out[k1] = Returned("app", 2) /\ k2 \in Suspended(2)

\* The failure of an attempt has been handed to every call that awaited it
Delivered(p) == promises[p].state = "rejected" /\ Suspended(p) = {}

\* The cache of module m holds no promise whose failure has been delivered
NoStaleFailure(m) == cached[m].promise # 0 => ~Delivered(cached[m].promise)

\* Only a fulfilled attempt is cached or returned as the connection of module m
NeverSuccess(m) ==
    /\ cached[m].conn # 0 => promises[cached[m].conn].state = "fulfilled"
    /\ \A k \in Clients :
          (out[k].ok /\ out[k].fn = m) => promises[out[k].conn].state = "fulfilled"

\* The step hands the failure of an attempt of module m to client k
FailureHanded(k, m) ==
    /\ clients[k].pc = "await"
    /\ clients[k].fn = m
    /\ promises[clients[k].promise].state = "rejected"
    /\ clients'[k].pc = "idle"

\* The step is a call by client k that suspends it in module m
Suspends(k, m) == clients[k].pc = "idle" /\ clients'[k].pc = "await" /\ clients'[k].fn = m

\* A handed failure leaves the cache of module m uninitialized, and a call after
\* it awaits an attempt of its own making
RetriesAfterFailure(m) ==
    \A k \in Clients :
        /\ FailureHanded(k, m) => cached'[m] = NoCache
        /\ (Suspends(k, m) /\ cached[m].promise # 0 /\ Delivered(cached[m].promise))
              => /\ Len(promises') = Len(promises) + 1
                 /\ clients'[k].promise = Len(promises')
                 /\ promises'[Len(promises')] = [by |-> m, state |-> "pending"]

\* C14: when a connection attempt fails the cache returns to the uninitialized
\* state (no connection, no promise), so the next call starts a fresh attempt
\* instead of replaying the cached failure, and a failed attempt is never
\* treated as a successful connection.
C14_FailureResetsCache ==
    /\ [](\A m \in Modules : NoStaleFailure(m) /\ NeverSuccess(m))
    /\ [][\A m \in Modules : RetriesAfterFailure(m)]_vars

\* The same for the connectToDatabase of src/app/providers.tsx alone
ProvidersFailureResetsCache ==
    /\ [](NoStaleFailure("app") /\ NeverSuccess("app"))
    /\ [][RetriesAfterFailure("app")]_vars

\* After a handed failure a call of providers.tsx is suspended on a second attempt
ProvidersRetried ==
    /\ Len(promises) = 2
    /\ promises[1] = [by |-> "app", state |-> "rejected"]
    /\ promises[2].by = "app"
    /\ \E k \in Clients : out[k] = Thrown("app", ConnectError)
    /\ Suspended(2) # {}

\* The step is a call of connectToDatabase of module m by client k
Calls(k, m) ==
    /\ clients[k].pc = "idle"
    /\ \/ clients'[k].pc = "await" /\ clients'[k].fn = m
       \/ out'[k] # out[k] /\ out'[k].fn = m

\* While MONGODB_URI is missing no attempt has been started and nothing is cached
NothingStarted == env = "missing" => (promises = <<>> /\ \A m \in Modules : cached[m] = NoCache)

\* A call of module m throws the configuration error and leaves the cache alone
\* while MONGODB_URI is missing, and connects once it is set
ConfigChecked(m) ==
    \A k \in Clients :
        /\ (Calls(k, m) /\ env = "missing")
              => /\ out'[k] = Thrown(m, ConfigErrorApp)
                 /\ UNCHANGED <<cached, promises, clients>>
        /\ (Calls(k, m) /\ env = "set" /\ cached[m] = NoCache)
              => /\ promises' = Append(promises, [by |-> m, state |-> "pending"])
                 /\ cached'[m].promise = Len(promises')
                 /\ clients'[k].promise = Len(promises')

\* C15: a missing connection string is reported by a configuration error at the
\* first connection attempt and not when the module is loaded; the error is
\* raised again by every later call while the string is missing, each such call
\* leaves the cache uninitialized with no attempt started, and a call made after
\* the string has been supplied starts a connection attempt.
C15_ConfigErrorAtFirstCall ==
    /\ [](imported # "threw")
    /\ []NothingStarted
    /\ [][\A m \in Modules : ConfigChecked(m)]_vars

\* The same for the connectToDatabase of src/app/providers.tsx alone
ProvidersConfigErrorAtFirstCall == []NothingStarted /\ [][ConfigChecked("app")]_vars

\* A call of providers.tsx threw the configuration error, and another, made after
\* MONGODB_URI was supplied, is suspended on the first attempt
ProvidersConfigured ==
    /\ imported = "no"
    /\ env = "set"
    /\ promises = <<[by |-> "app", state |-> "pending"]>>
    /\ \E k1, k2 \in Clients : out[k1] = Thrown("app", ConfigErrorApp) /\ k2 \in Suspended(1)

====
